---- MODULE Spec2Model ----
(***************************************************************************)
(* Game controller coordinator of ultistats_server                         *)
(* (storage/controller_storage.py): per-game arbitration of the two        *)
(* exclusive roles activeCoach and lineCoach, with stale-holder takeover   *)
(* and a negotiated, time-boxed handoff.                                   *)
(*                                                                         *)
(* Time is the reading of datetime.now(), counted in whole seconds; two    *)
(* calls may read the same value.  Timestamps are stored the way the code  *)
(* stores them, as the value of isoformat(), and compared after            *)
(* fromisoformat().  The except-branches of _is_stale and                  *)
(* _is_handoff_expired are not modelled: every stored timestamp is the     *)
(* isoformat() of a clock reading, so no parse fails and no key is missing.*)
(***************************************************************************)
EXTENDS Integers, Sequences, FiniteSets, TLC

(***************************************************************************)
(* Bounds of the model                                                     *)
(***************************************************************************)
\* last clock reading the model explores
MaxTime == 31

\* the amounts by which the clock advances between two calls: with these a
\* reading can fall exactly on a handoff's expiresAt (+10), one second after
\* it (+21 after +10), exactly on the stale limit (+30) and one past it (+31)
TickSteps == {10, 21}

Games == {"g1"}
Users == {"alice", "bob"}
Threads == {"t1", "t2"}

\* the display name the identity provider supplies for a user
\* (main.py: get_user(user["id"]).get("displayName"))
DisplayName(u) == IF u = "alice" THEN "Alice" ELSE "Bob"

(***************************************************************************)
(* Type definitions and constants of the program                           *)
(***************************************************************************)
RoleType == {"activeCoach", "lineCoach"}

STALE_TIMEOUT_SECONDS == 30

HANDOFF_EXPIRY_SECONDS == 10

\* Python's None
None == [none |-> TRUE]

(***************************************************************************)
(* datetime.isoformat() / datetime.fromisoformat(): an instant is written  *)
(* as its calendar fields and read back by recombining them.               *)
(***************************************************************************)
isoformat(t) == [minute |-> t \div 60, second |-> t % 60]

fromisoformat(s) == s.minute * 60 + s.second

timedelta(t, seconds) == t + seconds

VARIABLES
    controller_states,  \* _controller_states: game id -> ControllerState (a dict: only some games have a key)
    now,                \* the reading of datetime.now()
    last,               \* the call that returned last: its name, arguments and returned value
    lock,               \* _lock: "free" or the thread that holds it
    thr,                \* per thread: where it is inside a call, and the call's locals
    serial              \* the dict as the call that returned last left it

vars == <<controller_states, now, last, lock, thr, serial>>

(***************************************************************************)
(* Helper functions                                                        *)
(***************************************************************************)
_get_empty_state ==
    [activeCoach |-> None, lineCoach |-> None, pendingHandoff |-> None]

\* variant: a holder counts as stale once the timeout is reached
_is_stale_AtLimit(role_holder, t) ==
    IF role_holder = None
    THEN TRUE
    ELSE (t - fromisoformat(role_holder.lastPing)) >= STALE_TIMEOUT_SECONDS

_is_stale(role_holder, t) ==
    IF role_holder = None
    THEN TRUE
    ELSE (t - fromisoformat(role_holder.lastPing)) > STALE_TIMEOUT_SECONDS

\* variant: the expiry test always takes its error branch
_is_handoff_expired_Never(handoff, t) == FALSE

_is_handoff_expired(handoff, t) ==
    IF handoff = None
    THEN FALSE
    ELSE t > fromisoformat(handoff.expiresAt)

\* variant: the new lease is dated at the handoff's expiresAt
_auto_approve_handoff_AtExpiry(state, t) ==
    LET handoff == state.pendingHandoff IN
    IF handoff = None
    THEN state
    ELSE [state EXCEPT ![handoff.role] =
                           [userId      |-> handoff.requesterId,
                            displayName |-> handoff.requesterName,
                            claimedAt   |-> handoff.expiresAt,
                            lastPing    |-> handoff.expiresAt],
                       !.pendingHandoff = None]

_auto_approve_handoff(state, t) ==
    LET handoff == state.pendingHandoff IN
    IF handoff = None
    THEN state
    ELSE [state EXCEPT ![handoff.role] =
                           [userId      |-> handoff.requesterId,
                            displayName |-> handoff.requesterName,
                            claimedAt   |-> isoformat(t),
                            lastPing    |-> isoformat(t)],
                       !.pendingHandoff = None]

\* _controller_states.get(game_id, _get_empty_state()), `states' being the dict
GetState(states, game_id) ==
    IF game_id \in DOMAIN states
    THEN states[game_id]
    ELSE _get_empty_state

\* variant: the loop covers activeCoach only
CleanStale_ActiveOnly(state, t) ==
    [k \in DOMAIN state |->
        IF k = "activeCoach" /\ _is_stale(state[k], t) THEN None ELSE state[k]]

\* "Clean up stale claims": the loop over both roles
CleanStale(state, t) ==
    [k \in DOMAIN state |->
        IF k \in RoleType /\ _is_stale(state[k], t) THEN None ELSE state[k]]

\* variant: an expired handoff is dropped, the role stays where it is
HandleExpired_ClearOnly(state, t) ==
    IF _is_handoff_expired(state.pendingHandoff, t)
    THEN [state EXCEPT !.pendingHandoff = None]
    ELSE state

\* "Handle expired handoffs (auto-approve)"
HandleExpired(state, t) ==
    IF _is_handoff_expired(state.pendingHandoff, t)
    THEN _auto_approve_handoff(state, t)
    ELSE state

\* variant: the expired-handoff block left out
Corrected_StaleOnly(state, t) == CleanStale(state, t)

\* the two corrections in the order the code applies them
Corrected(state, t) == HandleExpired(CleanStale(state, t), t)

\* The dict after an operation.  `state' is the operation's local dict; it is
\* the stored object itself when the game has a key (so every mutation shows
\* in the dict), and a fresh one otherwise, which only the assignment
\* _controller_states[game_id] = state stores.
Store(states, game_id, state, assigned) ==
    IF assigned \/ game_id \in DOMAIN states
    THEN (game_id :> state) @@ states
    ELSE states

\* what a call leaves: the dict and the returned value
Apply(states, game_id, out) ==
    [states |-> Store(states, game_id, out.state, out.assigned),
     result |-> out.result]

(***************************************************************************)
(* Public API: every function is a pure map from the dict and the clock    *)
(* to the dict it leaves and the value it returns.                         *)
(***************************************************************************)
\* Each *_body is the part of the function that follows the lookup and the
\* corrections: from the local dict `state' to the local dict it leaves,
\* whether _controller_states[game_id] = state is executed, and the returned
\* value.
get_body(state) ==
    [state |-> state, assigned |-> TRUE, result |-> state]

get_controller_state(states, game_id, t) ==
    Apply(states, game_id, get_body(Corrected(GetState(states, game_id), t)))

\* variant: the re-claim succeeds and leaves lastPing as it was
ClaimRefresh_NoRefresh(state, role, t) ==
    [state |-> state, assigned |-> TRUE,
     result |-> [success |-> TRUE, state |-> state]]

\* "Already held by this user - just refresh ping"
ClaimRefresh(state, role, t) ==
    LET s2 == [state EXCEPT ![role].lastPing = isoformat(t)] IN
    [state |-> s2, assigned |-> TRUE,
     result |-> [success |-> TRUE, state |-> s2]]

\* variant: the new holder is returned and not written to the record
ClaimVacant_NotStored(state, role, user_id, display_name, t) ==
    LET s2 == [state EXCEPT ![role] =
                   [userId      |-> user_id,
                    displayName |-> display_name,
                    claimedAt   |-> isoformat(t),
                    lastPing    |-> isoformat(t)]] IN
    [state |-> state, assigned |-> TRUE,
     result |-> [success |-> TRUE, state |-> s2]]

\* variant: a user holds one role at a time, claiming a role gives up the
\* other
ClaimVacant_Exclusive(state, role, user_id, display_name, t) ==
    LET holder == [userId      |-> user_id,
                   displayName |-> display_name,
                   claimedAt   |-> isoformat(t),
                   lastPing    |-> isoformat(t)]
        s2 == [r \in DOMAIN state |->
                  IF r = role THEN holder
                  ELSE IF r \in RoleType /\ state[r] # None
                          /\ state[r].userId = user_id
                       THEN None
                       ELSE state[r]] IN
    [state |-> s2, assigned |-> TRUE,
     result |-> [success |-> TRUE, state |-> s2]]

\* "Role is vacant (or stale) - claim it"
ClaimVacant(state, role, user_id, display_name, t) ==
    LET s2 == [state EXCEPT ![role] =
                   [userId      |-> user_id,
                    displayName |-> display_name,
                    claimedAt   |-> isoformat(t),
                    lastPing    |-> isoformat(t)]] IN
    [state |-> s2, assigned |-> TRUE,
     result |-> [success |-> TRUE, state |-> s2]]

\* variant: a refused claim withdraws the pending handoff
ClaimOccupied_DropsHandoff(state, current_holder) ==
    LET s2 == [state EXCEPT !.pendingHandoff = None] IN
    [state |-> s2, assigned |-> TRUE,
     result |-> [success |-> FALSE, reason |-> "occupied",
                 currentHolder |-> current_holder, state |-> s2]]

\* variant: the holder reported is always the activeCoach
ClaimOccupied_ActiveHolder(state, current_holder) ==
    [state |-> state, assigned |-> TRUE,
     result |-> [success |-> FALSE, reason |-> "occupied",
                 currentHolder |-> state.activeCoach, state |-> state]]

\* "Role is occupied - cannot claim directly"
ClaimOccupied(state, current_holder) ==
    [state |-> state, assigned |-> TRUE,
     result |-> [success |-> FALSE, reason |-> "occupied",
                 currentHolder |-> current_holder, state |-> state]]

claim_body(state, role, user_id, display_name, t) ==
    LET current_holder == state[role]
    IN
    IF current_holder # None /\ current_holder.userId = user_id
    THEN ClaimRefresh(state, role, t)
    ELSE IF current_holder = None
    THEN ClaimVacant(state, role, user_id, display_name, t)
    ELSE ClaimOccupied(state, current_holder)

\* variant: the claim is decided on the record as found, without the
\* corrections
claim_role_DecideFirst(states, game_id, role, user_id, display_name, t) ==
    Apply(states, game_id,
          claim_body(GetState(states, game_id), role, user_id, display_name, t))

claim_role(states, game_id, role, user_id, display_name, t) ==
    Apply(states, game_id,
          claim_body(Corrected(GetState(states, game_id), t), role, user_id, display_name, t))

\* variant: the handoff expires after the 5 seconds of the docstrings
RequestCreate_FiveSeconds(state, role, requester_id, requester_name, current_holder, t) ==
    LET handoff == [role            |-> role,
                    requesterId     |-> requester_id,
                    requesterName   |-> requester_name,
                    currentHolderId |-> current_holder.userId,
                    requestedAt     |-> isoformat(t),
                    expiresAt       |-> isoformat(timedelta(t, 5))]
        s2 == [state EXCEPT !.pendingHandoff = handoff]
    IN
    [state |-> s2, assigned |-> TRUE,
     result |-> [success |-> TRUE, handoff |-> handoff, state |-> s2]]

\* "Create handoff request"
RequestCreate(state, role, requester_id, requester_name, current_holder, t) ==
    LET handoff == [role            |-> role,
                    requesterId     |-> requester_id,
                    requesterName   |-> requester_name,
                    currentHolderId |-> current_holder.userId,
                    requestedAt     |-> isoformat(t),
                    expiresAt       |-> isoformat(timedelta(t, HANDOFF_EXPIRY_SECONDS))]
        s2 == [state EXCEPT !.pendingHandoff = handoff]
    IN
    [state |-> s2, assigned |-> TRUE,
     result |-> [success |-> TRUE, handoff |-> handoff, state |-> s2]]

\* variant: every refusal of a request reports claim_role's reason
RequestFailed_Occupied(state, assigned, reason) ==
    [state |-> state, assigned |-> assigned,
     result |-> [success |-> FALSE, reason |-> "occupied"]]

RequestFailed(state, assigned, reason) ==
    [state |-> state, assigned |-> assigned,
     result |-> [success |-> FALSE, reason |-> reason]]

\* variant: the pending-handoff test left out
request_body_Overwrite(state, role, requester_id, requester_name, t) ==
    LET current_holder == state[role]
    IN
    IF current_holder = None
    THEN RequestFailed(state, TRUE, "role_vacant")
    ELSE IF current_holder.userId = requester_id
    THEN RequestFailed(state, FALSE, "already_holder")
    ELSE RequestCreate(state, role, requester_id, requester_name, current_holder, t)

\* variant: the pending-handoff test made before the own-role test
request_body_PendingFirst(state, role, requester_id, requester_name, t) ==
    LET current_holder == state[role]
    IN
    IF current_holder = None
    THEN RequestFailed(state, TRUE, "role_vacant")
    ELSE IF state.pendingHandoff # None
    THEN RequestFailed(state, FALSE, "handoff_pending")
    ELSE IF current_holder.userId = requester_id
    THEN RequestFailed(state, FALSE, "already_holder")
    ELSE RequestCreate(state, role, requester_id, requester_name, current_holder, t)

\* variant: the own-role test left out
request_body_SelfRequest(state, role, requester_id, requester_name, t) ==
    LET current_holder == state[role]
    IN
    IF current_holder = None
    THEN RequestFailed(state, TRUE, "role_vacant")
    ELSE IF state.pendingHandoff # None
    THEN RequestFailed(state, FALSE, "handoff_pending")
    ELSE RequestCreate(state, role, requester_id, requester_name, current_holder, t)

request_body(state, role, requester_id, requester_name, t) ==
    LET current_holder == state[role]
    IN
    IF current_holder = None
    THEN RequestFailed(state, TRUE, "role_vacant")
    ELSE IF current_holder.userId = requester_id
    THEN RequestFailed(state, FALSE, "already_holder")
    ELSE IF state.pendingHandoff # None
    THEN RequestFailed(state, FALSE, "handoff_pending")
    ELSE RequestCreate(state, role, requester_id, requester_name, current_holder, t)

request_handoff(states, game_id, role, requester_id, requester_name, t) ==
    Apply(states, game_id,
          request_body(Corrected(GetState(states, game_id), t), role, requester_id, requester_name, t))

\* variant: the role is transferred and the handoff stays pending
RespondAccept_KeepHandoff(state, handoff, t) ==
    LET s2 == [state EXCEPT ![handoff.role] =
                                [userId      |-> handoff.requesterId,
                                 displayName |-> handoff.requesterName,
                                 claimedAt   |-> isoformat(t),
                                 lastPing    |-> isoformat(t)]] IN
    [state |-> s2, assigned |-> TRUE,
     result |-> [success |-> TRUE, accepted |-> TRUE, state |-> s2]]

\* "Transfer the role", after "Clear the handoff request"
RespondAccept(state, handoff, t) ==
    LET s2 == [state EXCEPT !.pendingHandoff = None,
                            ![handoff.role] =
                                [userId      |-> handoff.requesterId,
                                 displayName |-> handoff.requesterName,
                                 claimedAt   |-> isoformat(t),
                                 lastPing    |-> isoformat(t)]] IN
    [state |-> s2, assigned |-> TRUE,
     result |-> [success |-> TRUE, accepted |-> TRUE, state |-> s2]]

\* variant: a deny also refreshes the holder's lastPing
RespondDeny_RefreshPing(state, handoff, t) ==
    LET s2 == [state EXCEPT !.pendingHandoff = None,
                            ![handoff.role].lastPing = isoformat(t)] IN
    [state |-> s2, assigned |-> TRUE,
     result |-> [success |-> TRUE, accepted |-> FALSE, state |-> s2]]

\* "Denied - role stays with current holder", after "Clear the handoff request"
RespondDeny(state, handoff, t) ==
    LET s2 == [state EXCEPT !.pendingHandoff = None] IN
    [state |-> s2, assigned |-> TRUE,
     result |-> [success |-> TRUE, accepted |-> FALSE, state |-> s2]]

\* variant: the test of the caller against currentHolderId left out
respond_body_AnyUser(state, user_id, accept, t) ==
    LET handoff == state.pendingHandoff
    IN
    IF handoff = None
    THEN [state |-> state, assigned |-> FALSE,
          result |-> [success |-> FALSE, reason |-> "no_pending_handoff"]]
    ELSE IF accept
    THEN RespondAccept(state, handoff, t)
    ELSE RespondDeny(state, handoff, t)

respond_body(state, user_id, accept, t) ==
    LET handoff == state.pendingHandoff
    IN
    IF handoff = None
    THEN [state |-> state, assigned |-> FALSE,
          result |-> [success |-> FALSE, reason |-> "no_pending_handoff"]]
    ELSE IF handoff.currentHolderId # user_id
    THEN [state |-> state, assigned |-> FALSE,
          result |-> [success |-> FALSE, reason |-> "not_holder"]]
    ELSE IF accept
    THEN RespondAccept(state, handoff, t)
    ELSE RespondDeny(state, handoff, t)

respond_to_handoff(states, game_id, user_id, accept, t) ==
    Apply(states, game_id, respond_body(GetState(states, game_id), user_id, accept, t))

\* variant: the test that the caller is the holder left out
release_body_AnyUser(state, role, user_id) ==
    LET current_holder == state[role]
    IN
    IF current_holder = None
    THEN [state |-> state, assigned |-> FALSE,
          result |-> [success |-> FALSE, reason |-> "not_holder"]]
    ELSE LET s1 == [state EXCEPT ![role] = None]
             handoff == s1.pendingHandoff
             s2 == IF handoff # None /\ handoff.role = role
                   THEN [s1 EXCEPT !.pendingHandoff = None]
                   ELSE s1
         IN
         [state |-> s2, assigned |-> TRUE,
          result |-> [success |-> TRUE, state |-> s2]]

\* variant: the pending handoff is cleared whatever role it targets
release_body_AnyHandoff(state, role, user_id) ==
    LET current_holder == state[role]
    IN
    IF current_holder = None \/ current_holder.userId # user_id
    THEN [state |-> state, assigned |-> FALSE,
          result |-> [success |-> FALSE, reason |-> "not_holder"]]
    ELSE LET s2 == [state EXCEPT ![role] = None, !.pendingHandoff = None]
         IN
         [state |-> s2, assigned |-> TRUE,
          result |-> [success |-> TRUE, state |-> s2]]

release_body(state, role, user_id) ==
    LET current_holder == state[role]
    IN
    IF current_holder = None \/ current_holder.userId # user_id
    THEN [state |-> state, assigned |-> FALSE,
          result |-> [success |-> FALSE, reason |-> "not_holder"]]
    ELSE LET s1 == [state EXCEPT ![role] = None]
             handoff == s1.pendingHandoff
             s2 == IF handoff # None /\ handoff.role = role
                   THEN [s1 EXCEPT !.pendingHandoff = None]
                   ELSE s1
         IN
         [state |-> s2, assigned |-> TRUE,
          result |-> [success |-> TRUE, state |-> s2]]

release_role(states, game_id, role, user_id) ==
    Apply(states, game_id, release_body(GetState(states, game_id), role, user_id))

\* variant: the test that the caller is the holder left out
ping_body_AnyUser(state, role, user_id, t) ==
    LET current_holder == state[role]
    IN
    IF current_holder = None
    THEN [state |-> state, assigned |-> FALSE,
          result |-> [success |-> FALSE, reason |-> "not_holder"]]
    ELSE LET s2 == [state EXCEPT ![role].lastPing = isoformat(t)] IN
         [state |-> s2, assigned |-> TRUE,
          result |-> [success |-> TRUE, state |-> s2]]

\* variant: the ping writes a whole new holder entry, claimedAt included
ping_body_NewClaim(state, role, user_id, t) ==
    LET current_holder == state[role]
    IN
    IF current_holder = None \/ current_holder.userId # user_id
    THEN [state |-> state, assigned |-> FALSE,
          result |-> [success |-> FALSE, reason |-> "not_holder"]]
    ELSE LET s2 == [state EXCEPT ![role].lastPing = isoformat(t),
                                 ![role].claimedAt = isoformat(t)] IN
         [state |-> s2, assigned |-> TRUE,
          result |-> [success |-> TRUE, state |-> s2]]

\* variant: the ping writes claimedAt instead of lastPing
ping_body_WrongField(state, role, user_id, t) ==
    LET current_holder == state[role]
    IN
    IF current_holder = None \/ current_holder.userId # user_id
    THEN [state |-> state, assigned |-> FALSE,
          result |-> [success |-> FALSE, reason |-> "not_holder"]]
    ELSE LET s2 == [state EXCEPT ![role].claimedAt = isoformat(t)] IN
         [state |-> s2, assigned |-> TRUE,
          result |-> [success |-> TRUE, state |-> s2]]

ping_body(state, role, user_id, t) ==
    LET current_holder == state[role]
    IN
    IF current_holder = None \/ current_holder.userId # user_id
    THEN [state |-> state, assigned |-> FALSE,
          result |-> [success |-> FALSE, reason |-> "not_holder"]]
    ELSE LET s2 == [state EXCEPT ![role].lastPing = isoformat(t)] IN
         [state |-> s2, assigned |-> TRUE,
          result |-> [success |-> TRUE, state |-> s2]]

ping_role(states, game_id, role, user_id, t) ==
    Apply(states, game_id, ping_body(GetState(states, game_id), role, user_id, t))

\* variant: the two roles of the record are reset, the record stays
clear_game_state_KeepHandoff(states, game_id) ==
    [states |-> IF game_id \in DOMAIN states
                THEN (game_id :> [states[game_id] EXCEPT !.activeCoach = None,
                                                         !.lineCoach = None])
                     @@ states
                ELSE states,
     result |-> None]

\* variant: _controller_states.clear(), every game goes
clear_game_state_AllGames(states, game_id) ==
    [states |-> << >>, result |-> None]

\* del _controller_states[game_id] when the key is there
clear_game_state(states, game_id) ==
    [states |-> [g \in DOMAIN states \ {game_id} |-> states[g]],
     result |-> None]

\* a dict with every game that has a key
\* variant: only the games with a holder or a pending handoff are listed
get_active_games_HeldOnly(states) ==
    LET held == {g \in DOMAIN states : states[g] # _get_empty_state} IN
    [states |-> states, result |-> [g \in held |-> states[g]]]

get_active_games(states) ==
    [states |-> states, result |-> states]

(***************************************************************************)
(* The state machine, one step per call: every public function runs under  *)
(* `with _lock', so a call is one atomic step (SpecConc below takes the    *)
(* calls apart and checks that).                                           *)
(***************************************************************************)
IdleFrame == [pc |-> "idle"]

Init ==
    /\ controller_states = << >>
    /\ now = 0
    /\ last = [op |-> "init"]
    /\ lock = "free"
    /\ thr = [th \in Threads |-> IdleFrame]
    /\ serial = << >>

\* the clock advances between two calls
Tick ==
    /\ \E d \in TickSteps :
          /\ now + d <= MaxTime
          /\ now' = now + d
    /\ last' = [op |-> "tick"]
    /\ UNCHANGED <<controller_states, lock, thr, serial>>

GetControllerState(g) ==
    LET out == get_controller_state(controller_states, g, now) IN
    /\ controller_states' = out.states
    /\ last' = [op |-> "get_controller_state", game |-> g, result |-> out.result]
    /\ UNCHANGED <<now, lock, thr, serial>>

ClaimRole(g, role, u) ==
    LET out == claim_role(controller_states, g, role, u, DisplayName(u), now) IN
    /\ controller_states' = out.states
    /\ last' = [op |-> "claim_role", game |-> g, role |-> role, user |-> u,
                result |-> out.result]
    /\ UNCHANGED <<now, lock, thr, serial>>

RequestHandoff(g, role, u) ==
    LET out == request_handoff(controller_states, g, role, u, DisplayName(u), now) IN
    /\ controller_states' = out.states
    /\ last' = [op |-> "request_handoff", game |-> g, role |-> role, user |-> u,
                result |-> out.result]
    /\ UNCHANGED <<now, lock, thr, serial>>

RespondToHandoff(g, u, accept) ==
    LET out == respond_to_handoff(controller_states, g, u, accept, now) IN
    /\ controller_states' = out.states
    /\ last' = [op |-> "respond_to_handoff", game |-> g, user |-> u,
                accept |-> accept, result |-> out.result]
    /\ UNCHANGED <<now, lock, thr, serial>>

ReleaseRole(g, role, u) ==
    LET out == release_role(controller_states, g, role, u) IN
    /\ controller_states' = out.states
    /\ last' = [op |-> "release_role", game |-> g, role |-> role, user |-> u,
                result |-> out.result]
    /\ UNCHANGED <<now, lock, thr, serial>>

PingRole(g, role, u) ==
    LET out == ping_role(controller_states, g, role, u, now) IN
    /\ controller_states' = out.states
    /\ last' = [op |-> "ping_role", game |-> g, role |-> role, user |-> u,
                result |-> out.result]
    /\ UNCHANGED <<now, lock, thr, serial>>

ClearGameState(g) ==
    LET out == clear_game_state(controller_states, g) IN
    /\ controller_states' = out.states
    /\ last' = [op |-> "clear_game_state", game |-> g, result |-> out.result]
    /\ UNCHANGED <<now, lock, thr, serial>>

GetActiveGames ==
    LET out == get_active_games(controller_states) IN
    /\ controller_states' = out.states
    /\ last' = [op |-> "get_active_games", result |-> out.result]
    /\ UNCHANGED <<now, lock, thr, serial>>

Next ==
    \/ Tick
    \/ \E g \in Games : GetControllerState(g)
    \/ \E g \in Games, role \in RoleType, u \in Users : ClaimRole(g, role, u)
    \/ \E g \in Games, role \in RoleType, u \in Users : RequestHandoff(g, role, u)
    \/ \E g \in Games, u \in Users, accept \in BOOLEAN : RespondToHandoff(g, u, accept)
    \/ \E g \in Games, role \in RoleType, u \in Users : ReleaseRole(g, role, u)
    \/ \E g \in Games, role \in RoleType, u \in Users : PingRole(g, role, u)
    \/ \E g \in Games : ClearGameState(g)
    \/ GetActiveGames

Spec == Init /\ [][Next]_vars


(***************************************************************************)
(* The same calls taken apart, run by threads: a call enters `with _lock', *)
(* looks the game up, applies the corrections, runs the rest of its body   *)
(* and returns, which releases the lock.  The local `state' is the stored   *)
(* object when the game has a key, so each mutation shows in the dict at   *)
(* once.  The clock may advance between any two steps.                     *)
(***************************************************************************)
\* the calls that apply the two corrections before they decide
CorrectingOps == {"get_controller_state", "claim_role", "request_handoff"}

\* variant: a lock that does not exclude
Enter_NoLock(th, op, g, role, u, accept) ==
    /\ thr[th].pc = "idle"
    /\ lock' = th
    /\ thr' = [thr EXCEPT ![th] =
                  [pc |-> IF op = "clear_game_state" THEN "body" ELSE "get",
                   op |-> op, game |-> g, role |-> role, user |-> u,
                   accept |-> accept, state |-> None, aliased |-> FALSE,
                   t1 |-> 0, t2 |-> 0, result |-> None]]
    /\ UNCHANGED <<controller_states, now, last, serial>>

\* the call is made and gets through `with _lock:'
Enter(th, op, g, role, u, accept) ==
    /\ thr[th].pc = "idle"
    /\ lock = "free"
    /\ lock' = th
    /\ thr' = [thr EXCEPT ![th] =
                  [pc |-> IF op = "clear_game_state" THEN "body" ELSE "get",
                   op |-> op, game |-> g, role |-> role, user |-> u,
                   accept |-> accept, state |-> None, aliased |-> FALSE,
                   t1 |-> 0, t2 |-> 0, result |-> None]]
    /\ UNCHANGED <<controller_states, now, last, serial>>

\* state = _controller_states.get(game_id, _get_empty_state())
Get(th) ==
    /\ thr[th].pc = "get"
    /\ thr' = [thr EXCEPT ![th].pc = IF thr[th].op \in CorrectingOps
                                     THEN "correct" ELSE "body",
                          ![th].state = GetState(controller_states, thr[th].game),
                          ![th].aliased = thr[th].game \in DOMAIN controller_states]
    /\ UNCHANGED <<controller_states, now, last, lock, serial>>

\* "Clean stale claims first" and "Handle expired handoffs"
Correct(th) ==
    LET f  == thr[th]
        s1 == Corrected(f.state, now)
    IN
    /\ f.pc = "correct"
    /\ thr' = [thr EXCEPT ![th].pc = "body", ![th].state = s1, ![th].t1 = now]
    /\ controller_states' = Store(controller_states, f.game, s1, f.aliased)
    /\ UNCHANGED <<now, last, lock, serial>>

\* the rest of the function's body, by function
BodyOf(f, t) ==
    CASE f.op = "get_controller_state" -> get_body(f.state)
      [] f.op = "claim_role" ->
             claim_body(f.state, f.role, f.user, DisplayName(f.user), t)
      [] f.op = "request_handoff" ->
             request_body(f.state, f.role, f.user, DisplayName(f.user), t)
      [] f.op = "respond_to_handoff" -> respond_body(f.state, f.user, f.accept, t)
      [] f.op = "release_role" -> release_body(f.state, f.role, f.user)
      [] f.op = "ping_role" -> ping_body(f.state, f.role, f.user, t)

\* the decision and the write; the value to return is ready
Body(th) ==
    LET f == thr[th]
        out == IF f.op = "clear_game_state"
               THEN clear_game_state(controller_states, f.game)
               ELSE LET o == BodyOf(f, now) IN
                    [states |-> Store(controller_states, f.game, o.state,
                                      o.assigned \/ f.aliased),
                     result |-> o.result]
    IN
    /\ f.pc = "body"
    /\ controller_states' = out.states
    /\ thr' = [thr EXCEPT ![th].pc = "ret", ![th].result = out.result,
                          ![th].t1 = IF f.op \in CorrectingOps THEN f.t1 ELSE now,
                          ![th].t2 = now]
    /\ UNCHANGED <<now, last, lock, serial>>

\* return ...: leaves the `with' block, which releases the lock
Return(th) ==
    /\ thr[th].pc = "ret"
    /\ lock' = "free"
    /\ serial' = controller_states
    /\ thr' = [thr EXCEPT ![th] = IdleFrame]
    /\ UNCHANGED <<controller_states, now, last>>

NextConc ==
    \/ Tick
    \/ \E th \in Threads, g \in Games :
          Enter(th, "get_controller_state", g, "activeCoach", "alice", FALSE)
    \/ \E th \in Threads, g \in Games, role \in RoleType, u \in Users :
          Enter(th, "claim_role", g, role, u, FALSE)
    \/ \E th \in Threads, g \in Games, role \in RoleType, u \in Users :
          Enter(th, "request_handoff", g, role, u, FALSE)
    \/ \E th \in Threads, g \in Games, u \in Users, accept \in BOOLEAN :
          Enter(th, "respond_to_handoff", g, "activeCoach", u, accept)
    \/ \E th \in Threads, g \in Games, role \in RoleType, u \in Users :
          Enter(th, "release_role", g, role, u, FALSE)
    \/ \E th \in Threads, g \in Games, role \in RoleType, u \in Users :
          Enter(th, "ping_role", g, role, u, FALSE)
    \/ \E th \in Threads, g \in Games :
          Enter(th, "clear_game_state", g, "activeCoach", "alice", FALSE)
    \/ \E th \in Threads : Get(th)
    \/ \E th \in Threads : Correct(th)
    \/ \E th \in Threads : Body(th)
    \/ \E th \in Threads : Return(th)

SpecConc == Init /\ [][NextConc]_vars

(***************************************************************************)
(* Two games side by side: the calls of Spec, one atomic step each, made   *)
(* on either of two game ids that share the dict and the clock.            *)
(***************************************************************************)
GamesIso == {"A", "B"}

\* the roles the calls on a game name: both on A, one on B, which keeps the
\* pairs of records few enough to enumerate
RolesIso(g) == IF g = "A" THEN RoleType ELSE {"activeCoach"}

\* the clock advances between two calls, past a handoff's expiresAt and past
\* the stale limit
TickStepsIso == {31}

TickIso ==
    /\ \E d \in TickStepsIso :
          /\ now + d <= MaxTime
          /\ now' = now + d
    /\ last' = [op |-> "tick"]
    /\ UNCHANGED <<controller_states, lock, thr, serial>>

NextIso ==
    \/ TickIso
    \/ \E g \in GamesIso : GetControllerState(g)
    \/ \E g \in GamesIso : \E role \in RolesIso(g), u \in Users : ClaimRole(g, role, u)
    \/ \E g \in GamesIso : \E role \in RolesIso(g), u \in Users : RequestHandoff(g, role, u)
    \/ \E g \in GamesIso, u \in Users, accept \in BOOLEAN : RespondToHandoff(g, u, accept)
    \/ \E g \in GamesIso : \E role \in RolesIso(g), u \in Users : ReleaseRole(g, role, u)
    \/ \E g \in GamesIso : \E role \in RolesIso(g), u \in Users : PingRole(g, role, u)
    \/ \E g \in GamesIso : ClearGameState(g)
    \/ GetActiveGames

SpecIso == Init /\ [][NextIso]_vars

(***************************************************************************)
(* Three users and a longer run of the clock: the calls of Spec, one       *)
(* atomic step each, on one game, with a third user who can step in after  *)
(* a holder has gone.                                                      *)
(***************************************************************************)
UsersDisp == Users \cup {"carol"}

\* the readings the clock moves to: a request made at 21 to a holder that
\* pinged at 0 is pending at 31, when that holder is stale, and has expired
\* at 42, when a holder that claimed at 31 is not stale
TimesDisp == {21, 31, 42}

\* the role the calls name: one is enough for a holder, a requester and a
\* third user to meet
RolesDisp == {"activeCoach"}

TickDisp ==
    /\ \E t \in TimesDisp :
          /\ t > now
          /\ now' = t
    /\ last' = [op |-> "tick"]
    /\ UNCHANGED <<controller_states, lock, thr, serial>>

NextDisp ==
    \/ TickDisp
    \/ \E g \in Games : GetControllerState(g)
    \/ \E g \in Games, role \in RolesDisp, u \in UsersDisp : ClaimRole(g, role, u)
    \/ \E g \in Games, role \in RolesDisp, u \in UsersDisp : RequestHandoff(g, role, u)
    \/ \E g \in Games, u \in UsersDisp, accept \in BOOLEAN : RespondToHandoff(g, u, accept)
    \/ \E g \in Games, role \in RolesDisp, u \in UsersDisp : ReleaseRole(g, role, u)
    \/ \E g \in Games, role \in RolesDisp, u \in UsersDisp : PingRole(g, role, u)
    \/ \E g \in Games : ClearGameState(g)
    \/ GetActiveGames

SpecDisp == Init /\ [][NextDisp]_vars

(***************************************************************************)
(* The caller and the value it was handed.  Every function returns         *)
(* dict(state): a new top-level dict whose three values are the very       *)
(* holder and handoff dicts of the stored record.  "handoff" and           *)
(* "currentHolder" are returned as dict(handoff) and dict(current_holder), *)
(* one-level copies of flat dicts.  After a call returns, the caller may   *)
(* write into what it got.                                                 *)
(***************************************************************************)
\* the state dict a call returned: the value itself for the read, the
\* "state" entry for the others, None when the result has none
ReturnedState(l) ==
    IF l.op = "get_controller_state"
    THEN l.result
    ELSE IF l.op \in {"claim_role", "request_handoff", "respond_to_handoff",
                      "release_role", "ping_role"}
            /\ "state" \in DOMAIN l.result
    THEN l.result.state
    ELSE None

\* returned[key] = None: a write to the top level of the returned dict, which
\* dict(state) made new
CallerSetsEntry(key) ==
    /\ ReturnedState(last) # None
    /\ ReturnedState(last)[key] # None
    /\ last' = [op |-> "caller_sets_entry", game |-> last.game, key |-> key]
    /\ UNCHANGED <<controller_states, now, lock, thr, serial>>

\* returned[key]["userId" or "requesterId"] = u: a write into a nested dict
\* of the returned state, which is the stored record's own object
CallerWritesNested(key, u) ==
    LET g     == last.game
        field == IF key = "pendingHandoff" THEN "requesterId" ELSE "userId"
    IN
    /\ ReturnedState(last) # None
    /\ ReturnedState(last)[key] # None
    /\ ReturnedState(last)[key][field] # u
    /\ controller_states' = [controller_states EXCEPT ![g][key][field] = u]
    /\ last' = [op |-> "caller_writes_nested", game |-> g, key |-> key, user |-> u]
    /\ UNCHANGED <<now, lock, thr, serial>>

\* result["handoff"]["requesterId"] = u or result["currentHolder"]["userId"]
\* = u: a write into one of the one-level copies
CallerWritesCopy(name, u) ==
    /\ last.op \in {"claim_role", "request_handoff"}
    /\ name \in DOMAIN last.result
    /\ last' = [op |-> "caller_writes_copy", game |-> last.game, key |-> name, user |-> u]
    /\ UNCHANGED <<controller_states, now, lock, thr, serial>>

NextAlias ==
    \/ TickIso
    \/ \E g \in Games : GetControllerState(g)
    \/ \E g \in Games, role \in RoleType, u \in Users : ClaimRole(g, role, u)
    \/ \E g \in Games, role \in RoleType, u \in Users : RequestHandoff(g, role, u)
    \/ \E g \in Games, u \in Users, accept \in BOOLEAN : RespondToHandoff(g, u, accept)
    \/ \E g \in Games, role \in RoleType, u \in Users : ReleaseRole(g, role, u)
    \/ \E g \in Games, role \in RoleType, u \in Users : PingRole(g, role, u)
    \/ \E g \in Games : ClearGameState(g)
    \/ GetActiveGames
    \/ \E key \in {"activeCoach", "lineCoach", "pendingHandoff"} : CallerSetsEntry(key)
    \/ \E key \in {"activeCoach", "lineCoach", "pendingHandoff"}, u \in Users :
          CallerWritesNested(key, u)
    \/ \E name \in {"handoff", "currentHolder"}, u \in Users : CallerWritesCopy(name, u)

SpecAlias == Init /\ [][NextAlias]_vars

(***************************************************************************)
(* Vocabulary of the properties.  A step of Spec is one call: `last' holds *)
(* the call and what it returned, the unprimed dict is the dict before the *)
(* call and the primed one the dict after it.                              *)
(***************************************************************************)
PreOf(g) == GetState(controller_states, g)

PostOf(g) == GetState(controller_states', g)

\* a role nobody holds: no holder, or one whose last ping is more than the
\* stale timeout in the past
Vacant(state, role, t) ==
    \/ state[role] = None
    \/ fromisoformat(state[role].lastPing) + STALE_TIMEOUT_SECONDS < t

HeldBy(state, role, u, t) ==
    ~Vacant(state, role, t) /\ state[role].userId = u

HeldByOther(state, role, u, t) ==
    ~Vacant(state, role, t) /\ state[role].userId # u

\* a handoff is pending and its expiresAt has passed
Expired(state, t) ==
    /\ state.pendingHandoff # None
    /\ fromisoformat(state.pendingHandoff.expiresAt) < t

FreshHolder(u, t) ==
    [userId |-> u, displayName |-> DisplayName(u),
     claimedAt |-> isoformat(t), lastPing |-> isoformat(t)]

Failed(res, reason) ==
    /\ ~res.success
    /\ res.reason = reason

\* C4 (Vacancy claim): claim_role on a role that has no holder once the
\* stale-holder and expired-handoff corrections are applied returns success,
\* and the role's holder is then the caller, with the caller's displayName and
\* claimedAt = lastPing = the time of the call.
C4_VacancyClaim ==
    [][ last'.op = "claim_role" =>
        LET g    == last'.game
            role == last'.role
            u    == last'.user
            pre  == PreOf(g)
            vacantAfterCorrections ==
                /\ Vacant(pre, role, now)
                /\ ~(Expired(pre, now) /\ pre.pendingHandoff.role = role)
        IN
        vacantAfterCorrections =>
            /\ last'.result.success
            /\ PostOf(g)[role] = FreshHolder(u, now)
            /\ last'.result.state[role] = FreshHolder(u, now)
      ]_vars

\* a claim made after the stale timeout has just taken a vacant role
C4_Witness ==
    /\ last.op = "claim_role"
    /\ last.result.success
    /\ now > STALE_TIMEOUT_SECONDS
    /\ controller_states[last.game][last.role] = FreshHolder(last.user, now)

RoleHolderOK(h) ==
    \/ h = None
    \/ /\ DOMAIN h = {"userId", "displayName", "claimedAt", "lastPing"}
       /\ h.userId \in Users

PendingHandoffOK(h) ==
    \/ h = None
    \/ /\ DOMAIN h = {"role", "requesterId", "requesterName", "currentHolderId",
                      "requestedAt", "expiresAt"}
       /\ h.role \in RoleType
       /\ h.requesterId \in Users
       /\ h.currentHolderId \in Users

\* C3 (Single in-flight handoff): a game's record holds at most one pending
\* handoff, whatever role it targets; a request_handoff made while a handoff
\* that has not expired is pending for either role, by a requester who is not
\* the holder of the requested, occupied role, fails with handoff_pending and
\* leaves the pending handoff as it was.
C3_SingleHandoff ==
    [][ /\ \A g \in DOMAIN controller_states' :
              PendingHandoffOK(controller_states'[g].pendingHandoff)
        /\ last'.op = "request_handoff" =>
              LET g    == last'.game
                  role == last'.role
                  u    == last'.user
                  pre  == PreOf(g)
              IN
              ( /\ pre.pendingHandoff # None
                /\ ~Expired(pre, now)
                /\ HeldByOther(pre, role, u, now) )
              => /\ Failed(last'.result, "handoff_pending")
                 /\ PostOf(g).pendingHandoff = pre.pendingHandoff
      ]_vars

\* a request for one role was rejected because a handoff for the other role
\* is pending
C3_Witness ==
    /\ last.op = "request_handoff"
    /\ Failed(last.result, "handoff_pending")
    /\ controller_states[last.game].pendingHandoff # None
    /\ controller_states[last.game].pendingHandoff.role # last.role
    /\ ~Expired(controller_states[last.game], now)

\* C5 as stated (Occupied claim rejection): claim_role on a role held by a
\* different, non-stale user fails with occupied, reports that holder and
\* leaves the role's holder unchanged.
C5_AsStated ==
    [][ last'.op = "claim_role" =>
        LET g    == last'.game
            role == last'.role
            pre  == PreOf(g)
        IN
        HeldByOther(pre, role, last'.user, now) =>
            /\ Failed(last'.result, "occupied")
            /\ last'.result.currentHolder.userId = pre[role].userId
            /\ PostOf(g)[role] = pre[role]
      ]_vars

\* C5 (amended): claim_role on a role held by a different, non-stale user,
\* when no pending handoff for that role has passed its expiresAt, fails with
\* occupied, reports that holder and leaves the role's holder unchanged.
C5_OccupiedClaim ==
    [][ last'.op = "claim_role" =>
        LET g    == last'.game
            role == last'.role
            pre  == PreOf(g)
        IN
        ( /\ HeldByOther(pre, role, last'.user, now)
          /\ ~(Expired(pre, now) /\ pre.pendingHandoff.role = role) )
        => /\ Failed(last'.result, "occupied")
           /\ last'.result.currentHolder = pre[role]
           /\ PostOf(g)[role] = pre[role]
      ]_vars

\* a claim was rejected and the holder it reports still holds the role
C5_Witness ==
    /\ last.op = "claim_role"
    /\ Failed(last.result, "occupied")
    /\ last.result.currentHolder.userId # last.user
    /\ controller_states[last.game][last.role] = last.result.currentHolder

\* C6 as stated (Self-claim idempotence): claim_role by the user who already
\* holds the role succeeds, the holder stays the caller and lastPing strictly
\* increases.
C6_AsStated ==
    [][ last'.op = "claim_role" =>
        LET g    == last'.game
            role == last'.role
            u    == last'.user
            pre  == PreOf(g)
        IN
        (pre[role] # None /\ pre[role].userId = u) =>
            /\ last'.result.success
            /\ PostOf(g)[role].userId = u
            /\ fromisoformat(PostOf(g)[role].lastPing) > fromisoformat(pre[role].lastPing)
      ]_vars

\* C6 (amended): claim_role by the user who already holds the role succeeds
\* unless a pending handoff by another user for that role has passed its
\* expiresAt; on success the holder stays the caller and lastPing becomes the
\* time of the call, never earlier than before and strictly later exactly when
\* the clock has advanced since the previous ping.
C6_SelfClaim ==
    [][ last'.op = "claim_role" =>
        LET g    == last'.game
            role == last'.role
            u    == last'.user
            pre  == PreOf(g)
            post == PostOf(g)
        IN
        ( /\ pre[role] # None
          /\ pre[role].userId = u
          /\ ~( /\ Expired(pre, now)
                /\ pre.pendingHandoff.role = role
                /\ pre.pendingHandoff.requesterId # u ) )
        => /\ last'.result.success
           /\ post[role].userId = u
           /\ post[role].lastPing = isoformat(now)
           /\ fromisoformat(post[role].lastPing) >= fromisoformat(pre[role].lastPing)
           /\ (fromisoformat(post[role].lastPing) > fromisoformat(pre[role].lastPing))
                  <=> (now > fromisoformat(pre[role].lastPing))
      ]_vars

\* the holder has re-claimed its role at a later time: same claim, later ping
C6_Witness ==
    /\ last.op = "claim_role"
    /\ last.result.success
    /\ LET h == controller_states[last.game][last.role] IN
          /\ h.userId = last.user
          /\ h.lastPing = isoformat(now)
          /\ fromisoformat(h.claimedAt) < now

RejectionRule(pre, post, role, u, res, t) ==
    /\ Vacant(pre, role, t) => Failed(res, "role_vacant")
    /\ HeldBy(pre, role, u, t) => Failed(res, "already_holder")
    /\ (HeldByOther(pre, role, u, t) /\ pre.pendingHandoff # None)
          => Failed(res, "handoff_pending")
    /\ ~res.success => post.pendingHandoff = pre.pendingHandoff

\* C8 as stated (Handoff request rejections and their precedence).
C8_AsStated ==
    [][ last'.op = "request_handoff" =>
        RejectionRule(PreOf(last'.game), PostOf(last'.game), last'.role,
                      last'.user, last'.result, now)
      ]_vars

\* C8 (amended): when no pending handoff has passed its expiresAt,
\* request_handoff fails with role_vacant when the role is unheld (even if a
\* handoff is pending), else with already_holder when the requester holds the
\* role (even if a handoff is pending), else with handoff_pending when a
\* handoff is pending; in none of these cases is a pending handoff created or
\* the existing one modified.
C8_Rejections ==
    [][ last'.op = "request_handoff" =>
        ( ~Expired(PreOf(last'.game), now) =>
            RejectionRule(PreOf(last'.game), PostOf(last'.game), last'.role,
                          last'.user, last'.result, now) )
      ]_vars

\* the holder of a role asked for a handoff of its own role while a handoff
\* was pending: already_holder, not handoff_pending
C8_Witness ==
    /\ last.op = "request_handoff"
    /\ Failed(last.result, "already_holder")
    /\ controller_states[last.game].pendingHandoff # None
    /\ ~Expired(controller_states[last.game], now)

\* C9 (Handoff accept transfers the role): after a successful
\* respond_to_handoff(accept = true) the holder of the handoff's role is the
\* handoff's requester (userId and displayName of the handoff, claimedAt =
\* lastPing = now), no handoff is pending and the other role's holder is as
\* before.
C9_AcceptTransfers ==
    [][ (last'.op = "respond_to_handoff" /\ last'.accept /\ last'.result.success) =>
        LET pre  == PreOf(last'.game)
            post == PostOf(last'.game)
            h    == pre.pendingHandoff
        IN
        /\ h # None
        /\ last'.result.accepted
        /\ post[h.role] = [userId      |-> h.requesterId,
                           displayName |-> h.requesterName,
                           claimedAt   |-> isoformat(now),
                           lastPing    |-> isoformat(now)]
        /\ post.pendingHandoff = None
        /\ \A r \in RoleType \ {h.role} : post[r] = pre[r]
        /\ last'.result.state = post
      ]_vars

\* a handoff has been accepted some time after the previous holder's claim
C9_Witness ==
    /\ last.op = "respond_to_handoff"
    /\ last.accept
    /\ last.result.success
    /\ now > 0
    /\ \E r \in RoleType :
          LET h == controller_states[last.game][r] IN
          /\ h # None
          /\ h.userId # last.user
          /\ h.claimedAt = isoformat(now)

\* C10 (Handoff deny preserves the holder): after a successful
\* respond_to_handoff(accept = false) no handoff is pending and the holders of
\* both roles are exactly as before the call, claimedAt and lastPing included.
C10_DenyPreserves ==
    [][ (last'.op = "respond_to_handoff" /\ ~last'.accept /\ last'.result.success) =>
        LET pre  == PreOf(last'.game)
            post == PostOf(last'.game)
        IN
        /\ pre.pendingHandoff # None
        /\ ~last'.result.accepted
        /\ post.pendingHandoff = None
        /\ \A r \in RoleType : post[r] = pre[r]
        /\ last'.result.state = post
      ]_vars

\* a handoff has been denied by a holder whose last ping is in the past: the
\* deny left lastPing where it was
C10_Witness ==
    /\ last.op = "respond_to_handoff"
    /\ ~last.accept
    /\ last.result.success
    /\ \E r \in RoleType :
          LET h == controller_states[last.game][r] IN
          /\ h # None
          /\ h.userId = last.user
          /\ fromisoformat(h.lastPing) < now

\* the users the coordinator treats as holder of a role: those whose ping,
\* and whose release, of that role it would accept now
PingAccepted(g, role) ==
    {u \in Users : ping_role(controller_states, g, role, u, now).result.success}

ReleaseAccepted(g, role) ==
    {u \in Users : release_role(controller_states, g, role, u).result.success}

\* C1 (Mutual exclusion): in every reachable state, for every game and each
\* of the two roles, the role is vacant or held by exactly one user: the
\* record names one user, and the coordinator accepts a ping or a release of
\* the role from that user and from nobody else.
C1_MutualExclusion ==
    \A g \in DOMAIN controller_states : \A role \in RoleType :
        LET h == controller_states[g][role] IN
        /\ RoleHolderOK(h)
        /\ PingAccepted(g, role) = ReleaseAccepted(g, role)
        /\ Cardinality(PingAccepted(g, role)) <= 1
        /\ h = None => PingAccepted(g, role) = {}
        /\ h # None => PingAccepted(g, role) = {h.userId}

\* both roles are held, and a user who pinged a role held by the other user
\* has just been refused
C1_Witness ==
    /\ last.op = "ping_role"
    /\ Failed(last.result, "not_holder")
    /\ last.game \in DOMAIN controller_states
    /\ \A role \in RoleType : controller_states[last.game][role] # None
    /\ controller_states[last.game][last.role].userId # last.user

\* what the call of a frame does when it runs alone, in one step, at time t
AtomicCall(states, f, t) ==
    CASE f.op = "get_controller_state" -> get_controller_state(states, f.game, t)
      [] f.op = "claim_role" ->
             claim_role(states, f.game, f.role, f.user, DisplayName(f.user), t)
      [] f.op = "request_handoff" ->
             request_handoff(states, f.game, f.role, f.user, DisplayName(f.user), t)
      [] f.op = "respond_to_handoff" ->
             respond_to_handoff(states, f.game, f.user, f.accept, t)
      [] f.op = "release_role" -> release_role(states, f.game, f.role, f.user)
      [] f.op = "ping_role" -> ping_role(states, f.game, f.role, f.user, t)
      [] f.op = "clear_game_state" -> clear_game_state(states, f.game)

\* C2 (Linearizability per game): a call does its whole read / clean-stale /
\* auto-approve / decide / write sequence holding the lock.  So only one call
\* is ever inside; a call finds the dict exactly as the call that returned
\* before it left it, never half-way through another call; and when it is
\* about to return, its result and the dict are those of running it alone, in
\* one step, after the calls that returned before it (the clock read once).
\* Hence of two claims of one vacant role the first succeeds and the second is
\* refused with occupied, naming the first.
C2_Linearizable ==
    \A th \in Threads :
        LET f == thr[th] IN
        /\ f.pc # "idle" => lock = th
        /\ f.pc = "get" => controller_states = serial
        /\ (f.pc = "ret" /\ f.t1 = f.t2) =>
              LET atomic == AtomicCall(serial, f, f.t2) IN
              /\ f.result = atomic.result
              /\ controller_states = atomic.states
        /\ ( /\ f.pc = "ret"
             /\ f.op = "claim_role"
             /\ f.t1 = f.t2
             /\ HeldByOther(GetState(serial, f.game), f.role, f.user, f.t2)
             /\ GetState(serial, f.game)[f.role].claimedAt = isoformat(f.t2) )
           => /\ Failed(f.result, "occupied")
              /\ f.result.currentHolder = GetState(serial, f.game)[f.role]

\* two users have claimed the same role at the same instant: the call of the
\* second is about to return occupied, naming the first, whose claim is in
\* the dict
C2_Witness ==
    \E th \in Threads :
        LET f == thr[th] IN
        /\ f.pc = "ret"
        /\ f.op = "claim_role"
        /\ lock = th
        /\ Failed(f.result, "occupied")
        /\ f.result.currentHolder.userId # f.user
        /\ f.result.currentHolder.claimedAt = isoformat(now)
        /\ controller_states[f.game][f.role] = f.result.currentHolder

\* the holder a game's record names for a role, stale or not
StoredHolder(state, role, u) ==
    state[role] # None /\ state[role].userId = u

\* C11 (Only the current holder can respond): respond_to_handoff returns
\* success, accept or deny, only when the caller is, at the time of the call,
\* the holder of the role the pending handoff targets (read in the weakest
\* way: the holder the record names, stale or not); every other caller gets a
\* failure and the state is unchanged.
C11_OnlyHolderResponds ==
    [][ last'.op = "respond_to_handoff" =>
        LET pre == PreOf(last'.game)
            h   == pre.pendingHandoff
        IN
        /\ last'.result.success =>
              (h # None /\ StoredHolder(pre, h.role, last'.user))
        /\ ~last'.result.success => controller_states' = controller_states
      ]_vars

\* C12 (Handoff response rejections): respond_to_handoff fails with
\* no_pending_handoff when the game has no pending handoff, and with
\* not_holder when a handoff is pending and the caller's userId differs from
\* its currentHolderId; in both cases the pending handoff and both role
\* holders are left unchanged.
C12_RespondRejections ==
    [][ last'.op = "respond_to_handoff" =>
        LET pre  == PreOf(last'.game)
            post == PostOf(last'.game)
            h    == pre.pendingHandoff
        IN
        /\ h = None => Failed(last'.result, "no_pending_handoff")
        /\ (h # None /\ h.currentHolderId # last'.user)
              => Failed(last'.result, "not_holder")
        /\ ~last'.result.success =>
              /\ post = pre
              /\ controller_states' = controller_states
      ]_vars

\* the requester of a pending handoff tried to answer it itself and was
\* refused; the handoff is still pending and the holder still holds the role
C12_Witness ==
    /\ last.op = "respond_to_handoff"
    /\ Failed(last.result, "not_holder")
    /\ LET st == controller_states[last.game] IN
          /\ st.pendingHandoff # None
          /\ st.pendingHandoff.requesterId = last.user
          /\ st[st.pendingHandoff.role] # None
          /\ st[st.pendingHandoff.role].userId = st.pendingHandoff.currentHolderId

\* the record names a holder of the role whose lastPing is more than the
\* stale timeout in the past
StaleHolder(state, role, t) ==
    /\ state[role] # None
    /\ fromisoformat(state[role].lastPing) + STALE_TIMEOUT_SECONDS < t

\* a pending handoff for the role has passed its expiresAt
ExpiredFor(state, role, t) ==
    Expired(state, t) /\ state.pendingHandoff.role = role

\* C13 as stated (Staleness takeover): a holder whose lastPing is more than
\* 30 s in the past is reported as absent (role = none) by the next
\* get_controller_state, and a claim_role for that role by a different user
\* made after the timeout succeeds and makes that user the holder.
C13_AsStated ==
    [][ /\ last'.op = "get_controller_state" =>
              \A r \in RoleType :
                  StaleHolder(PreOf(last'.game), r, now) => last'.result[r] = None
        /\ last'.op = "claim_role" =>
              LET pre == PreOf(last'.game)
                  r   == last'.role
              IN
              (StaleHolder(pre, r, now) /\ pre[r].userId # last'.user) =>
                  /\ last'.result.success
                  /\ PostOf(last'.game)[r].userId = last'.user
      ]_vars

\* C13 (amended): when no pending handoff for the role has passed its
\* expiresAt, a holder whose lastPing is more than 30 s in the past is
\* reported as absent (role = none) by the next get_controller_state, which
\* also removes it from the record, and a claim_role for that role by a
\* different user made after the timeout succeeds and makes that user the
\* holder, with claimedAt = lastPing = the time of the claim.
C13_StalenessTakeover ==
    [][ /\ last'.op = "get_controller_state" =>
              \A r \in RoleType :
                  LET pre == PreOf(last'.game) IN
                  (StaleHolder(pre, r, now) /\ ~ExpiredFor(pre, r, now)) =>
                      /\ last'.result[r] = None
                      /\ PostOf(last'.game)[r] = None
        /\ last'.op = "claim_role" =>
              LET pre == PreOf(last'.game)
                  r   == last'.role
              IN
              ( /\ StaleHolder(pre, r, now)
                /\ pre[r].userId # last'.user
                /\ ~ExpiredFor(pre, r, now) ) =>
                  /\ last'.result.success
                  /\ PostOf(last'.game)[r] = FreshHolder(last'.user, now)
      ]_vars

\* a read has just reported a role vacant whose holder had been asked for a
\* handoff 10 s before: that holder went stale and was removed, the handoff
\* addressed to it is still pending
C13_Witness ==
    /\ last.op = "get_controller_state"
    /\ now > STALE_TIMEOUT_SECONDS
    /\ last.result.pendingHandoff # None
    /\ last.result[last.result.pendingHandoff.role] = None
    /\ controller_states[last.game] = last.result

\* the calls that act on the record of one game and return a result record
RecordOps ==
    {"get_controller_state", "claim_role", "request_handoff",
     "respond_to_handoff", "release_role", "ping_role"}

\* C14 (Auto-approval): once a pending handoff's expiresAt has passed, the
\* next read or operation on that game (get_controller_state, claim_role,
\* request_handoff, respond_to_handoff, release_role or ping_role) transfers
\* the handoff's role to the requester and clears that pending handoff,
\* without any explicit accept.
C14_AutoApproval ==
    [][ last'.op \in RecordOps =>
        LET pre  == PreOf(last'.game)
            post == PostOf(last'.game)
            h    == pre.pendingHandoff
        IN
        Expired(pre, now) =>
            /\ post.pendingHandoff # h
            /\ \/ post[h.role] # None /\ post[h.role].userId = h.requesterId
               \/ /\ last'.op = "release_role"
                  /\ last'.role = h.role
                  /\ last'.user = h.requesterId
                  /\ last'.result.success
      ]_vars

\* the dict with the two corrections applied to the record of game g
CorrectedDict(states, g, t) ==
    (g :> Corrected(GetState(states, g), t)) @@ states

\* C15 (Corrections first): each of claim_role, request_handoff,
\* respond_to_handoff, release_role and ping_role applies the stale-holder
\* correction and the expired-handoff correction to the game's record before
\* it decides, so what it returns is what the call returns when it is made
\* on the corrected record.
C15_CorrectionsFirst ==
    [][ last'.op \in RecordOps \ {"get_controller_state"} =>
        LET g == last'.game
            onCorrected == AtomicCall(CorrectedDict(controller_states, g, now), last', now)
        IN
        last'.result = onCorrected.result
      ]_vars

\* C16 (Release): release_role by a user who does not hold the role (the
\* record has no holder for it, or names someone else) fails with not_holder
\* and leaves the state unchanged; release_role by the holder the record
\* names succeeds and leaves that role vacant, with the other role's holder
\* unchanged.
C16_Release ==
    [][ last'.op = "release_role" =>
        LET g    == last'.game
            role == last'.role
            pre  == PreOf(g)
            post == PostOf(g)
        IN
        /\ ~StoredHolder(pre, role, last'.user) =>
              /\ Failed(last'.result, "not_holder")
              /\ controller_states' = controller_states
        /\ StoredHolder(pre, role, last'.user) =>
              /\ last'.result.success
              /\ post[role] = None
              /\ \A r \in RoleType \ {role} : post[r] = pre[r]
              /\ last'.result.state = post
      ]_vars

\* a user who held both roles has released one and still holds the other
C16_Witness ==
    /\ last.op = "release_role"
    /\ last.result.success
    /\ controller_states[last.game][last.role] = None
    /\ \E r \in RoleType \ {last.role} :
          StoredHolder(controller_states[last.game], r, last.user)

\* C17 (Release side effect): a successful release_role clears the game's
\* pending handoff if and only if that handoff targets the released role; a
\* pending handoff that targets the other role is left exactly as it was.
C17_ReleaseSideEffect ==
    [][ (last'.op = "release_role" /\ last'.result.success) =>
        LET pre  == PreOf(last'.game)
            post == PostOf(last'.game)
            h    == pre.pendingHandoff
        IN
        /\ (h # None /\ h.role = last'.role) => post.pendingHandoff = None
        /\ (h # None /\ h.role # last'.role) => post.pendingHandoff = h
        /\ h = None => post.pendingHandoff = None
        /\ last'.result.state.pendingHandoff = post.pendingHandoff
      ]_vars

\* a role has been released while a handoff for the other role is pending:
\* the handoff is still there
C17_Witness ==
    /\ last.op = "release_role"
    /\ last.result.success
    /\ LET st == controller_states[last.game] IN
          /\ st[last.role] = None
          /\ st.pendingHandoff # None
          /\ st.pendingHandoff.role # last.role
          /\ st.pendingHandoff = last.result.state.pendingHandoff

\* C18 (Ping): ping_role by a user who does not hold the role (the record has
\* no holder for it, or names someone else) fails with not_holder and changes
\* nothing; ping_role by the holder the record names succeeds, sets that
\* holder's lastPing to now and leaves the holder's userId, displayName and
\* claimedAt, the other role and any pending handoff unchanged.
C18_Ping ==
    [][ last'.op = "ping_role" =>
        LET g    == last'.game
            role == last'.role
            pre  == PreOf(g)
            post == PostOf(g)
        IN
        /\ ~StoredHolder(pre, role, last'.user) =>
              /\ Failed(last'.result, "not_holder")
              /\ controller_states' = controller_states
        /\ StoredHolder(pre, role, last'.user) =>
              /\ last'.result.success
              /\ post[role] = [pre[role] EXCEPT !.lastPing = isoformat(now)]
              /\ fromisoformat(post[role].lastPing) = now
              /\ \A r \in RoleType \ {role} : post[r] = pre[r]
              /\ post.pendingHandoff = pre.pendingHandoff
              /\ last'.result.state = post
      ]_vars

\* a holder has pinged some time after its claim, while a handoff is pending
\* and the other role is held: lastPing is now, claimedAt is earlier
C18_Witness ==
    /\ last.op = "ping_role"
    /\ last.result.success
    /\ LET st == controller_states[last.game] IN
          /\ st[last.role].lastPing = isoformat(now)
          /\ fromisoformat(st[last.role].claimedAt) < now
          /\ st.pendingHandoff # None
          /\ \A r \in RoleType : st[r] # None

\* C19 (Game teardown): clear_game_state(g) discards g's record whatever it
\* contains; a get_controller_state(g) that follows reports both roles vacant
\* and no pending handoff; and a handoff that was pending before the clear is
\* never auto-approved afterwards: a call that finds no record of g leaves no
\* pending handoff and no holder other than the caller of a claim_role, with
\* claimedAt = lastPing = the time of that claim.  (Stated on the calls taken
\* apart: a call about to return holds the lock, `serial' is the dict it
\* found and controller_states the dict it leaves.)
C19_Teardown ==
    \A th \in Threads :
        LET f    == thr[th]
            post == GetState(controller_states, f.game)
        IN
        f.pc = "ret" =>
            /\ f.op = "clear_game_state" =>
                  /\ f.game \notin DOMAIN controller_states
                  /\ f.result = None
            /\ (f.op = "get_controller_state" /\ f.game \notin DOMAIN serial) =>
                  /\ f.result = _get_empty_state
                  /\ post = _get_empty_state
            /\ (f.op \in RecordOps /\ f.game \notin DOMAIN serial) =>
                  /\ post.pendingHandoff = None
                  /\ \A r \in RoleType :
                        post[r] # None =>
                            /\ f.op = "claim_role"
                            /\ r = f.role
                            /\ post[r] = FreshHolder(f.user, f.t2)

\* a clear is about to return that has discarded a record with a holder and
\* a pending handoff whose expiresAt had passed without any call observing it
C19_Witness ==
    \E th \in Threads :
        LET f == thr[th] IN
        /\ f.pc = "ret"
        /\ f.op = "clear_game_state"
        /\ f.game \in DOMAIN serial
        /\ Expired(serial[f.game], now)
        /\ serial[f.game][serial[f.game].pendingHandoff.role] # None
        /\ f.game \notin DOMAIN controller_states

\* the dict with no game but g
Only(states, g) == [x \in DOMAIN states \cap {g} |-> states[x]]

\* C20 (Game isolation): for two distinct game ids A and B, no call made on A
\* (its lazy corrections and clear_game_state(A) included) changes B's
\* record, B's holders and pending handoff and whether B has a record at all;
\* and the result of a call on A, and the record it leaves for A, are those
\* of the same call made on a dict that holds A's record alone.
C20_GameIsolation ==
    [][ last'.op \in RecordOps \cup {"clear_game_state"} =>
        LET g     == last'.game
            alone == AtomicCall(Only(controller_states, g), last', now)
        IN
        /\ \A b \in GamesIso \ {g} :
              /\ (b \in DOMAIN controller_states') <=> (b \in DOMAIN controller_states)
              /\ GetState(controller_states', b) = GetState(controller_states, b)
        /\ last'.result = alone.result
        /\ Only(controller_states', g) = alone.states
      ]_vars

\* one game has just been cleared while the other has a record with a holder
\* and a pending handoff whose expiresAt has passed: that record is still
\* there, not approved and not discarded
C20_Witness ==
    /\ last.op = "clear_game_state"
    /\ last.game \notin DOMAIN controller_states
    /\ \E b \in GamesIso \ {last.game} :
          /\ b \in DOMAIN controller_states
          /\ Expired(controller_states[b], now)
          /\ controller_states[b][controller_states[b].pendingHandoff.role] # None

\* the reasons with which each function can refuse
ReasonsOf(op) ==
    CASE op = "claim_role" -> {"occupied"}
      [] op = "request_handoff" -> {"role_vacant", "already_holder", "handoff_pending"}
      [] op = "respond_to_handoff" -> {"no_pending_handoff", "not_holder"}
      [] op = "release_role" -> {"not_holder"}
      [] op = "ping_role" -> {"not_holder"}

\* C21 (Failures are values from a closed set): every call returns a value:
\* claim_role, request_handoff, respond_to_handoff, release_role and ping_role
\* a record with success true, or with success false and a reason from the
\* function's own set (occupied; role_vacant, already_holder, handoff_pending;
\* no_pending_handoff, not_holder; not_holder; not_holder);
\* get_controller_state the game's record, never a failure; clear_game_state
\* None.
C21_ClosedFailures ==
    [][ /\ last'.op \in RecordOps \ {"get_controller_state"} =>
              /\ "success" \in DOMAIN last'.result
              /\ last'.result.success \in BOOLEAN
              /\ ~last'.result.success =>
                    /\ "reason" \in DOMAIN last'.result
                    /\ last'.result.reason \in ReasonsOf(last'.op)
        /\ last'.op = "get_controller_state" =>
              /\ DOMAIN last'.result = {"activeCoach", "lineCoach", "pendingHandoff"}
              /\ last'.result = PostOf(last'.game)
        /\ last'.op = "clear_game_state" => last'.result = None
      ]_vars

\* a response was sent for a game that has no record at all: the call
\* returned the failure no_pending_handoff and created no record
C21_Witness ==
    /\ last.op = "respond_to_handoff"
    /\ Failed(last.result, "no_pending_handoff")
    /\ last.game \notin DOMAIN controller_states
    /\ now > 0

\* C22: in every reachable state, a pending handoff's requesterId differs
\* from its currentHolderId.
C22_RequesterNotHolder ==
    \A g \in DOMAIN controller_states :
        LET h == controller_states[g].pendingHandoff IN
        h # None => h.requesterId # h.currentHolderId

\* a handoff is pending whose requester has meanwhile become the holder of
\* the role (the holder it names went stale and the requester claimed)
C22_Witness ==
    \E g \in DOMAIN controller_states :
        LET st == controller_states[g]
            h  == st.pendingHandoff
        IN
        /\ h # None
        /\ st[h.role] # None
        /\ st[h.role].userId = h.requesterId

\* C23: in every reachable state every role holder has lastPing >= claimedAt,
\* and while the same holder instance persists (same userId, same claimedAt)
\* its lastPing never decreases across any operation.
C23_PingOrder ==
    [][ \A g \in DOMAIN controller_states' : \A r \in RoleType :
            LET h2 == controller_states'[g][r]
                h1 == PreOf(g)[r]
            IN
            h2 # None =>
                /\ fromisoformat(h2.lastPing) >= fromisoformat(h2.claimedAt)
                /\ (h1 # None /\ h1.userId = h2.userId /\ h1.claimedAt = h2.claimedAt)
                      => fromisoformat(h2.lastPing) >= fromisoformat(h1.lastPing)
      ]_vars

\* a holder that claimed at 0 has just pinged at the last reading of the
\* clock: the same lease, its lastPing moved forward
C23_Witness ==
    /\ last.op = "ping_role"
    /\ last.result.success
    /\ now > STALE_TIMEOUT_SECONDS
    /\ LET h == controller_states[last.game][last.role] IN
          /\ h.claimedAt = isoformat(0)
          /\ h.lastPing = isoformat(now)

\* the writes a caller makes into a value a call returned
CallerOps == {"caller_sets_entry", "caller_writes_nested", "caller_writes_copy"}

\* C24 (No external aliasing): the state returned by get_controller_state,
\* and the state / handoff returned by the other operations, is a copy that
\* is safe to modify: whatever the caller writes into the returned value, the
\* nested role-holder and pending-handoff records included, leaves the
\* coordinator's stored state unchanged.
C24_NoExternalAliasing ==
    [][ last'.op \in CallerOps => controller_states' = controller_states ]_vars

\* C25 (Documented 5-second handoff timeout): a pending handoff that the
\* holder has not responded to is auto-approved by a get_controller_state
\* made more than 5 seconds after the request was created: the read leaves
\* the requester as holder of the handoff's role and no handoff pending.
C25_FiveSecondTimeout ==
    [][ last'.op = "get_controller_state" =>
        LET pre  == PreOf(last'.game)
            post == PostOf(last'.game)
            h    == pre.pendingHandoff
        IN
        (h # None /\ now > fromisoformat(h.requestedAt) + 5) =>
            /\ post.pendingHandoff = None
            /\ post[h.role] # None
            /\ post[h.role].userId = h.requesterId
      ]_vars

\* C26 (Pending handoff always matches the holder): in every reachable state
\* in which a game has a pending handoff, the handoff's role is held and its
\* holder's userId equals the handoff's currentHolderId.
C26_HandoffMatchesHolder ==
    \A g \in DOMAIN controller_states :
        LET st == controller_states[g]
            h  == st.pendingHandoff
        IN
        h # None => StoredHolder(st, h.role, h.currentHolderId)

\* C27 (No unasked displacement): whenever a role passes to a handoff's
\* requester, by respond_to_handoff(accept = true) or by the auto-approval of
\* a get_controller_state, claim_role or request_handoff, the user who loses
\* the role (its holder before the call, when it has one that the call does
\* not remove as stale) is the user recorded as the handoff's
\* currentHolderId.
C27_NoUnaskedDisplacement ==
    [][ last'.op \in RecordOps =>
        LET pre  == PreOf(last'.game)
            h    == pre.pendingHandoff
            byAccept == /\ last'.op = "respond_to_handoff"
                        /\ last'.accept
                        /\ last'.result.success
            byExpiry == /\ last'.op \in CorrectingOps
                        /\ Expired(pre, now)
            loser == pre[h.role]
        IN
        ( /\ h # None
          /\ byAccept \/ byExpiry
          /\ loser # None
          /\ byExpiry => ~_is_stale(loser, now)
          /\ loser.userId # h.requesterId )
        => loser.userId = h.currentHolderId
      ]_vars

\* C28 (Post-access freshness): immediately after get_controller_state,
\* claim_role or request_handoff returns for a game, that game's stored
\* record contains no holder whose lastPing is older than the stale timeout
\* and no pending handoff whose expiresAt has passed, and the state returned
\* to the caller (by the calls that return one) equals the stored record.
C28_PostAccessFresh ==
    [][ last'.op \in CorrectingOps =>
        LET g    == last'.game
            post == PostOf(g)
        IN
        /\ g \in DOMAIN controller_states'
        /\ \A r \in RoleType : ~StaleHolder(post, r, now)
        /\ ~Expired(post, now)
        /\ ReturnedState(last') # None => ReturnedState(last') = post
      ]_vars

\* a claim has just been refused with occupied, naming a holder whose lease
\* starts at this very call: the call approved an expired handoff before it
\* decided, and the record it leaves and returns is the corrected one
C28_Witness ==
    /\ last.op = "claim_role"
    /\ Failed(last.result, "occupied")
    /\ last.result.currentHolder.claimedAt = isoformat(now)
    /\ last.result.state = controller_states[last.game]
    /\ last.result.state.pendingHandoff = None
    /\ now > STALE_TIMEOUT_SECONDS

\* C29 (A stale holder is absent for every operation): ping_role or
\* release_role called by a user whose own lastPing is already older than the
\* stale timeout fails with not_holder, so a lease that has exceeded the
\* timeout cannot be revived by a late ping.
C29_StaleHolderAbsent ==
    [][ last'.op \in {"ping_role", "release_role"} =>
        LET pre == PreOf(last'.game) IN
        (StaleHolder(pre, last'.role, now) /\ pre[last'.role].userId = last'.user)
            => Failed(last'.result, "not_holder")
      ]_vars

\* C30 (Auto-approval installs a fresh lease): when an expired handoff is
\* auto-approved by get_controller_state, claim_role or request_handoff, the
\* holder of the handoff's role is then the requester, with the handoff's
\* requesterName and claimedAt = lastPing = the time of that access (not
\* expiresAt); it is not stale in the record left nor in the state returned
\* by that access, whatever the previous holder was; the handoff is gone.
C30_FreshLease ==
    [][ last'.op \in CorrectingOps =>
        LET pre  == PreOf(last'.game)
            post == PostOf(last'.game)
            h    == pre.pendingHandoff
        IN
        Expired(pre, now) =>
            /\ post[h.role] = [userId      |-> h.requesterId,
                               displayName |-> h.requesterName,
                               claimedAt   |-> isoformat(now),
                               lastPing    |-> isoformat(now)]
            /\ ~_is_stale(post[h.role], now)
            /\ post.pendingHandoff # h
            /\ ReturnedState(last') # None =>
                  ReturnedState(last')[h.role] = post[h.role]
      ]_vars

\* a read made past the stale timeout returns, with no handoff pending, a
\* holder whose lease starts at the read: an expired handoff was approved at
\* a time when a holder that last pinged at 0 is stale
C30_Witness ==
    /\ last.op = "get_controller_state"
    /\ now > STALE_TIMEOUT_SECONDS
    /\ last.result.pendingHandoff = None
    /\ \E r \in RoleType :
          /\ last.result[r] # None
          /\ last.result[r].claimedAt = isoformat(now)
          /\ last.result[r].lastPing = isoformat(now)
          /\ controller_states[last.game][r] = last.result[r]

\* the holder an approved handoff installs at time t
ApprovedHolder(h, t) ==
    [userId      |-> h.requesterId,
     displayName |-> h.requesterName,
     claimedAt   |-> isoformat(t),
     lastPing    |-> isoformat(t)]

\* C31 (Request after expiry): when request_handoff(role, C) is called while
\* a handoff by requester B for that role has passed its expiresAt, the old
\* handoff is auto-approved first and the request is decided against B as
\* holder: it fails already_holder if C = B, and otherwise succeeds with a new
\* pending handoff whose currentHolderId is B; it is never refused with
\* handoff_pending.
C31_RequestAfterExpiry ==
    [][ last'.op = "request_handoff" =>
        LET pre  == PreOf(last'.game)
            post == PostOf(last'.game)
            role == last'.role
            old  == pre.pendingHandoff
        IN
        ExpiredFor(pre, role, now) =>
            /\ post[role] = ApprovedHolder(old, now)
            /\ ~Failed(last'.result, "handoff_pending")
            /\ last'.user = old.requesterId =>
                  /\ Failed(last'.result, "already_holder")
                  /\ post.pendingHandoff = None
            /\ last'.user # old.requesterId =>
                  /\ last'.result.success
                  /\ post.pendingHandoff = last'.result.handoff
                  /\ post.pendingHandoff.role = role
                  /\ post.pendingHandoff.requesterId = last'.user
                  /\ post.pendingHandoff.currentHolderId = old.requesterId
                  /\ post.pendingHandoff.requestedAt = isoformat(now)
      ]_vars

\* a request has just succeeded against a holder whose lease starts at this
\* very call: the former holder asked for the role back after the handoff
\* that took it had expired
C31_Witness ==
    /\ last.op = "request_handoff"
    /\ last.result.success
    /\ now > 0
    /\ LET st == controller_states[last.game] IN
          /\ st[last.role].userId = last.result.handoff.currentHolderId
          /\ st[last.role].claimedAt = isoformat(now)
          /\ st.pendingHandoff = last.result.handoff

\* C32 (Claim after expiry): when claim_role is called for a role whose
\* pending handoff has passed its expiresAt, the handoff is auto-approved
\* before the claim is decided: a claim by the handoff's requester succeeds,
\* and a claim by the former holder or any third user fails with occupied and
\* reports the requester as currentHolder.
C32_ClaimAfterExpiry ==
    [][ last'.op = "claim_role" =>
        LET pre  == PreOf(last'.game)
            post == PostOf(last'.game)
            role == last'.role
            old  == pre.pendingHandoff
        IN
        ExpiredFor(pre, role, now) =>
            /\ post[role] = ApprovedHolder(old, now)
            /\ post.pendingHandoff = None
            /\ last'.user = old.requesterId => last'.result.success
            /\ last'.user # old.requesterId =>
                  /\ Failed(last'.result, "occupied")
                  /\ last'.result.currentHolder = ApprovedHolder(old, now)
      ]_vars

\* a third user, neither requester nor former holder, has claimed the role
\* after the handoff expired and was refused, the requester named as holder
C32_Witness ==
    /\ last.op = "claim_role"
    /\ last.user = "carol"
    /\ Failed(last.result, "occupied")
    /\ last.result.currentHolder.userId # "carol"
    /\ last.result.currentHolder.claimedAt = isoformat(now)
    /\ controller_states[last.game].pendingHandoff = None
    /\ now > 0

\* the role's holder is no longer the user the record named before the call
HolderReplaced(pre, post, r) ==
    /\ pre[r] # None
    /\ \/ post[r] = None
       \/ post[r].userId # pre[r].userId
       \/ post[r].claimedAt # pre[r].claimedAt

\* the first two halves of C33: a holder pinged at most 30 s ago survives the
\* corrections, and a handoff at or before its expiresAt is left pending by
\* them
NoEarlyCorrection ==
    last'.op \in CorrectingOps =>
        LET pre  == PreOf(last'.game)
            post == PostOf(last'.game)
        IN
        /\ \A r \in RoleType :
              ( /\ pre[r] # None
                /\ now - fromisoformat(pre[r].lastPing) <= STALE_TIMEOUT_SECONDS
                /\ ~ExpiredFor(pre, r, now) )
              => ~HolderReplaced(pre, post, r)
        /\ ( /\ pre.pendingHandoff # None
             /\ now <= fromisoformat(pre.pendingHandoff.expiresAt) )
           => post.pendingHandoff = pre.pendingHandoff

\* the ways the spec lists for a holder to change
ListedHolderChange(pre, r, l) ==
    \/ /\ l.op = "respond_to_handoff"
       /\ l.accept
       /\ l.result.success
       /\ pre.pendingHandoff.role = r
    \/ /\ l.op = "release_role"
       /\ l.role = r
       /\ l.result.success
    \/ /\ l.op \in CorrectingOps
       /\ StaleHolder(pre, r, now)
    \/ /\ l.op \in CorrectingOps
       /\ ExpiredFor(pre, r, now)

\* C33 as stated (No early expiry or eviction): a holder whose lastPing is at
\* most 30 s in the past is never removed by the stale-holder correction, a
\* pending handoff is never auto-approved at a time less than or equal to its
\* expiresAt, and until then the holder changes only through an explicit
\* accept, a release, or staleness.
C33_AsStated ==
    [][ /\ NoEarlyCorrection
        /\ last'.op \in RecordOps \cup {"clear_game_state"} =>
              \A r \in RoleType :
                  HolderReplaced(PreOf(last'.game), PostOf(last'.game), r)
                  => ListedHolderChange(PreOf(last'.game), r, last')
      ]_vars

\* C33 (No early expiry or eviction), amended: as above, and until the
\* handoff expires the holder changes only through an explicit accept, a
\* release, staleness, or clear_game_state discarding the game's record.
C33_NoEarlyExpiry ==
    [][ /\ NoEarlyCorrection
        /\ last'.op \in RecordOps \cup {"clear_game_state"} =>
              \A r \in RoleType :
                  HolderReplaced(PreOf(last'.game), PostOf(last'.game), r)
                  => \/ ListedHolderChange(PreOf(last'.game), r, last')
                     \/ last'.op = "clear_game_state"
      ]_vars

\* a read exactly 30 s after the holder's last ping and exactly at the
\* handoff's expiresAt has reported the holder and the handoff both kept
C33_Witness ==
    /\ last.op = "get_controller_state"
    /\ last.result.pendingHandoff # None
    /\ fromisoformat(last.result.pendingHandoff.expiresAt) = now
    /\ \E r \in RoleType :
          /\ last.result[r] # None
          /\ fromisoformat(last.result[r].lastPing) + STALE_TIMEOUT_SECONDS = now
          /\ last.result.pendingHandoff.role = r
          /\ last.result.pendingHandoff.currentHolderId = last.result[r].userId

\* C34 (Failed operations do not act): whenever claim_role or request_handoff
\* returns success: false, the stored state differs from the state before the
\* call only by the lazy stale-holder and expired-handoff corrections, i.e. it
\* is the state a get_controller_state at that instant would leave; whenever
\* respond_to_handoff, release_role or ping_role returns success: false, the
\* stored state is identical to the state before the call.
C34_FailedOpsDoNotAct ==
    [][ /\ ( /\ last'.op \in {"claim_role", "request_handoff"}
             /\ ~last'.result.success )
           => controller_states' =
                  get_controller_state(controller_states, last'.game, now).states
        /\ ( /\ last'.op \in {"respond_to_handoff", "release_role", "ping_role"}
             /\ ~last'.result.success )
           => controller_states' = controller_states
      ]_vars

\* a request has just failed with already_holder against a lease that starts
\* at this very call: the failing call left the auto-approval, and nothing
\* else, in the record
C34_Witness ==
    /\ last.op = "request_handoff"
    /\ Failed(last.result, "already_holder")
    /\ now > 0
    /\ LET st == controller_states[last.game] IN
          /\ st[last.role].userId = last.user
          /\ st[last.role].claimedAt = isoformat(now)
          /\ st.pendingHandoff = None

\* the other role of the same game
OtherRole(role) == CHOOSE r \in RoleType : r # role

\* C36 as stated (The two roles are independent): claim_role, ping_role and
\* release_role on one role never change the holder of the other role of the
\* same game, and holding one role never makes a claim of the other fail.
\* The holder of the other role is read in the weakest way: a holder pinged
\* within the stale timeout is still the holder after the call.
C36_AsStated ==
    [][ last'.op \in {"claim_role", "ping_role", "release_role"} =>
        LET pre   == PreOf(last'.game)
            post  == PostOf(last'.game)
            other == OtherRole(last'.role)
        IN
        /\ ( pre[other] # None /\ ~StaleHolder(pre, other, now) )
           => ( post[other] # None /\ post[other].userId = pre[other].userId )
        /\ ( /\ last'.op = "claim_role"
             /\ HeldBy(pre, other, last'.user, now)
             /\ ~HeldByOther(pre, last'.role, last'.user, now) )
           => last'.result.success
      ]_vars

\* C36 (The two roles are independent), amended: ping_role and release_role
\* on one role leave the other role's holder as it is; claim_role leaves it
\* as the lazy corrections leave it (a stale holder removed, an expired
\* handoff for the other role approved) and changes nothing else of it; and a
\* claim of a role that has no holder after the corrections succeeds
\* whoever holds the other role, the caller included.
C36_RolesIndependent ==
    [][ last'.op \in {"claim_role", "ping_role", "release_role"} =>
        LET pre   == PreOf(last'.game)
            post  == PostOf(last'.game)
            other == OtherRole(last'.role)
            cor   == Corrected(pre, now)
        IN
        /\ last'.op \in {"ping_role", "release_role"}
              => post[other] = pre[other]
        /\ last'.op = "claim_role" =>
              /\ post[other] = cor[other]
              /\ ~ExpiredFor(pre, other, now) =>
                    \/ post[other] = pre[other]
                    \/ StaleHolder(pre, other, now) /\ post[other] = None
              /\ ( cor[last'.role] = None
                   \/ cor[last'.role].userId = last'.user )
                 => last'.result.success
      ]_vars

\* a user who already held one role has just claimed the other and holds
\* both, each under its own lease
C36_Witness ==
    /\ last.op = "claim_role"
    /\ last.result.success
    /\ LET st == controller_states[last.game] IN
          /\ \A r \in RoleType :
                st[r] # None /\ st[r].userId = last.user
          /\ st[last.role].claimedAt = isoformat(now)
          /\ st[OtherRole(last.role)].claimedAt # isoformat(now)

\* C37 (Record lifecycle): get_active_games returns exactly the games that
\* currently have a stored record, i.e. those touched by get_controller_state,
\* claim_role or request_handoff and not cleared since; clear_game_state
\* removes the game from that set, a later get_controller_state re-creates an
\* empty record for it, and get_active_games itself applies no corrections
\* and leaves every record unchanged.  Step by step: the three correcting
\* calls add their game to the set of games with a record, clear_game_state
\* takes its game out, no other call changes the set, and get_active_games
\* returns the dict as it is stored.
C37_RecordLifecycle ==
    [][ /\ last'.op \in CorrectingOps =>
              DOMAIN controller_states' = DOMAIN controller_states \cup {last'.game}
        /\ last'.op = "clear_game_state" =>
              DOMAIN controller_states' = DOMAIN controller_states \ {last'.game}
        /\ last'.op \in {"respond_to_handoff", "release_role", "ping_role"} =>
              DOMAIN controller_states' = DOMAIN controller_states
        /\ last'.op = "get_active_games" =>
              /\ last'.result = controller_states
              /\ controller_states' = controller_states
        /\ ( /\ last'.op = "get_controller_state"
             /\ last'.game \notin DOMAIN controller_states )
           => /\ controller_states'[last'.game] = _get_empty_state
              /\ last'.result = _get_empty_state
      ]_vars

\* get_active_games has just listed a game whose record still names a holder
\* that went stale, uncorrected, and has left out a game that has no record
C37_Witness ==
    /\ last.op = "get_active_games"
    /\ \E a \in DOMAIN last.result :
          StaleHolder(last.result[a], "activeCoach", now)
    /\ \E b \in GamesIso : b \notin DOMAIN last.result
    /\ DOMAIN last.result = DOMAIN controller_states

(***************************************************************************)
(* Time keeps advancing and the game keeps being read: the calls of Spec   *)
(* on one game with the clock of SpecDisp, under weak fairness of the      *)
(* clock and of get_controller_state (the clients' poll).  The clock of    *)
(* the model stops at its last reading, so a handoff is requested only     *)
(* while its expiresAt lies before that reading.  The calls name one role, *)
(* the pending slot being one per game.                                    *)
(***************************************************************************)
LastReading == CHOOSE t \in TimesDisp : \A x \in TimesDisp : x <= t

RequestHandoffLive(g, role, u) ==
    /\ timedelta(now, HANDOFF_EXPIRY_SECONDS) < LastReading
    /\ RequestHandoff(g, role, u)

Poll == \E g \in Games : GetControllerState(g)

NextLive ==
    \/ TickDisp
    \/ Poll
    \/ \E g \in Games, role \in RolesDisp, u \in Users : ClaimRole(g, role, u)
    \/ \E g \in Games, role \in RolesDisp, u \in Users : RequestHandoffLive(g, role, u)
    \/ \E g \in Games, u \in Users, accept \in BOOLEAN : RespondToHandoff(g, u, accept)
    \/ \E g \in Games, role \in RolesDisp, u \in Users : ReleaseRole(g, role, u)
    \/ \E g \in Games, role \in RolesDisp, u \in Users : PingRole(g, role, u)
    \/ \E g \in Games : ClearGameState(g)
    \/ GetActiveGames

SpecLive ==
    /\ Init
    /\ [][NextLive]_vars
    /\ WF_vars(TickDisp)
    /\ WF_vars(Poll)

\* the pending handoff of a game, None when the game has no record
PendingOf(g) ==
    IF g \in DOMAIN controller_states
    THEN controller_states[g].pendingHandoff
    ELSE None

\* C35 (Handoffs always resolve): assuming time keeps advancing and the game
\* keeps being read, every pending handoff is eventually cleared (by accept,
\* deny, release of its role, auto-approval or clear), so no handoff stays
\* pending forever and the slot a handoff_pending refusal found taken is
\* eventually free of that handoff: at any time, later on either no handoff
\* is pending or the pending handoff is replaced.
C35_HandoffsResolve ==
    \A g \in Games :
        \/ []<>(PendingOf(g) = None)
        \/ []<><<TRUE>>_(PendingOf(g))

\* a poll at the clock's last reading has just resolved a handoff nobody
\* answered: the requester holds the role under a lease that starts at the
\* poll
C35_Witness ==
    /\ last.op = "get_controller_state"
    /\ now = LastReading
    /\ last.result.pendingHandoff = None
    /\ \E r \in RoleType :
          /\ last.result[r] # None
          /\ last.result[r].claimedAt = isoformat(now)

(***************************************************************************)
(* The claim endpoints of main.py, claim-active and claim-line: claim_role *)
(* and, when the claim is refused, request_handoff, two calls of the       *)
(* coordinator between which the clock may advance.  The games of the      *)
(* model exist (game_exists), so the 404 answer is not part of it.  The    *)
(* answer is the HTTP status with the body's status field.                 *)
(***************************************************************************)

\* the call of line 781 (and 820): main.py uses the name, and neither it nor
\* any module it imports defines it, so evaluating the call raises NameError
_get_handoff_expires_in_seconds(handoff) == [raised |-> "NameError"]

claim_endpoint(states, game_id, role, user_id, display_name, t1, t2) ==
    LET c == claim_role(states, game_id, role, user_id, display_name, t1) IN
    IF c.result.success
    THEN [states   |-> c.states,
          response |-> [http |-> 200, status |-> "claimed", role |-> role,
                        detail |-> None, handoff |-> None]]
    ELSE LET h == request_handoff(c.states, game_id, role, user_id,
                                  display_name, t2) IN
         IF h.result.success
         THEN LET e == _get_handoff_expires_in_seconds(h.result.handoff) IN
              \* the exception leaves the endpoint, the framework answers 500
              [states   |-> h.states,
               response |-> [http |-> 500, status |-> "error", role |-> role,
                             detail |-> e.raised, handoff |-> None]]
         ELSE [states   |-> h.states,
               response |-> [http |-> 409, status |-> "error", role |-> role,
                             detail |-> h.result.reason, handoff |-> None]]

ClaimEndpoint(g, role, u) ==
    \E t2 \in {now} \cup {t \in TimesDisp : t > now} :
        LET out == claim_endpoint(controller_states, g, role, u,
                                  DisplayName(u), now, t2) IN
        /\ controller_states' = out.states
        /\ now' = t2
        /\ last' = [op |-> "claim_endpoint", game |-> g, role |-> role,
                    user |-> u, response |-> out.response]
        /\ UNCHANGED <<lock, thr, serial>>

NextEndpoint ==
    \/ TickDisp
    \/ \E g \in Games : GetControllerState(g)
    \/ \E g \in Games, role \in RoleType, u \in Users : ClaimEndpoint(g, role, u)
    \/ \E g \in Games, u \in Users, accept \in BOOLEAN : RespondToHandoff(g, u, accept)
    \/ \E g \in Games, role \in RoleType, u \in Users : ReleaseRole(g, role, u)
    \/ \E g \in Games, role \in RoleType, u \in Users : PingRole(g, role, u)

SpecEndpoint == Init /\ [][NextEndpoint]_vars

\* the call has left a pending handoff of its own making in the record
HandoffCreatedBy(pre, post, l) ==
    /\ post.pendingHandoff # None
    /\ post.pendingHandoff # pre.pendingHandoff
    /\ post.pendingHandoff.requesterId = l.user
    /\ post.pendingHandoff.role = l.role

\* C38 (Claim endpoints): called for a vacant or stale role they respond
\* with status claimed; called for a role occupied by another user while no
\* handoff is pending they create a pending handoff for the caller and
\* respond with status handoff_requested carrying the handoff; they respond
\* with an error only when request_handoff itself fails, so an error
\* response never leaves behind a handoff created by that same call.
C38_ClaimEndpoints ==
    [][ last'.op = "claim_endpoint" =>
        LET pre  == PreOf(last'.game)
            post == PostOf(last'.game)
            resp == last'.response
        IN
        /\ Vacant(pre, last'.role, now) => resp.status = "claimed"
        /\ ( /\ HeldByOther(pre, last'.role, last'.user, now)
             /\ pre.pendingHandoff = None )
           => /\ resp.http = 200
              /\ resp.status = "handoff_requested"
              /\ resp.handoff = post.pendingHandoff
              /\ HandoffCreatedBy(pre, post, last')
        /\ resp.http # 200 => ~HandoffCreatedBy(pre, post, last')
      ]_vars

====
